---- MODULE Spec2Model ----
(***************************************************************************)
(* Model of errutil (src/src/lib.rs): Context, WithBacktrace, ErrorExt and *)
(* ResultExt.                                                              *)
(*                                                                         *)
(* A failure value is a singly linked chain of owned nodes.  It is         *)
(* represented as a sequence of nodes, outermost first: node i owns node   *)
(* i+1 (Context.error, WithBacktrace.err) and the last node is the leaf.   *)
(* A reference to a node is its index; Option<&T> is 0 for None.           *)
(* A Backtrace is identified by the ordinal of the Backtrace::new() call   *)
(* that captured it; Option<Backtrace> is 0 for None.                      *)
(***************************************************************************)
EXTENDS Integers, Sequences, FiniteSets, TLC

\* ---- bounds -------------------------------------------------------------
MaxWraps == 5

\* ---- inputs ---------------------------------------------------------------
Msgs == {"saving file", "loading config"}

LeafTypes == {"Io", "Parse"}

LeafText(ty) == IF ty = "Io" THEN "disk full" ELSE "bad input"

OkVals == {7}

None == 0

\* err: a failure value the caller wraps through ErrorExt
\* res: a Result the caller wraps through ResultExt
\* captured: number of Backtrace::new() calls so far
\* evals: number of evaluations of a with_context message closure so far
\* ehist, rhist: the calls made so far on err and on res, oldest first
VARIABLES err, res, captured, evals, ehist, rhist

vars == <<err, res, captured, evals, ehist, rhist>>

\* ---- nodes ----------------------------------------------------------------
Leaf(ty) == [kind |-> "leaf", ty |-> ty, msg |-> LeafText(ty), bt |-> None]

\* struct Context { msg, error }: the node; `error` is the rest of the chain
Context(msg) == [kind |-> "ctx", ty |-> "Context", msg |-> msg, bt |-> None]

\* struct WithBacktrace { err, backtrace }: the node; `err` is the rest
WithBacktrace(backtrace) ==
    [kind |-> "wb", ty |-> "WithBacktrace", msg |-> "", bt |-> backtrace]

\* Result<T, E>
Ok(v) == [tag |-> "Ok", v |-> v, e |-> <<>>]

Err(e) == [tag |-> "Err", v |-> 0, e |-> e]

\* ---- Context --------------------------------------------------------------
Context_new(msg, error) == <<Context(msg)>> \o error

\* ---- Display / StdError::source ------------------------------------------
\* variant: Context formats the wrapped error instead of its message
RECURSIVE Display_ErrorText(_, _)
Display_ErrorText(e, i) ==
    IF e[i].kind = "leaf" THEN e[i].msg ELSE Display_ErrorText(e, i + 1)

RECURSIVE Display(_, _)
Display(e, i) ==
    IF e[i].kind = "wb" THEN Display(e, i + 1)   \* Display::fmt(&self.err)
    ELSE e[i].msg                                \* self.msg.fmt / leaf text

\* variant: Context forwards source() to the wrapped error, as WithBacktrace does
RECURSIVE source_Forwarding(_, _)
source_Forwarding(e, i) ==
    IF e[i].kind = "leaf" THEN None ELSE source_Forwarding(e, i + 1)

RECURSIVE source(_, _)
source(e, i) ==
    CASE e[i].kind = "ctx" -> i + 1              \* Some(&self.error)
      [] e[i].kind = "wb" -> source(e, i + 1)    \* self.err.source()
      [] OTHER -> None                           \* leaf: no cause

\* ---- WithBacktrace ------------------------------------------------------
RECURSIVE find_bt(_, _)
find_bt(e, i) ==
    LET src == source(e, i) IN
    IF src = None THEN None
    ELSE IF e[src].kind = "wb" THEN src          \* downcast_ref::<WithBacktrace>
    ELSE find_bt(e, src)

\* variant: backtrace() returns the own field only, without delegating
backtrace_OwnOnly(e, i) == e[i].bt

RECURSIVE backtrace(_, _)
backtrace(e, i) ==
    IF e[i].bt # None THEN e[i].bt
    ELSE LET re == find_bt(e, i + 1) IN
         IF re = None THEN None ELSE backtrace(e, re)

\* concrete type of node i; Context<M, E> is generic in the wrapped type
RECURSIVE TypeOf(_, _)
TypeOf(e, i) ==
    IF e[i].kind = "ctx" THEN <<"Context">> \o TypeOf(e, i + 1)
    ELSE <<e[i].ty>>

\* variant: downcast_ref searches every layer below the wrapper for a T
downcast_ref_Deep(e, i, T) ==
    LET hits == {j \in (i + 1)..Len(e) : TypeOf(e, j) = T} IN
    IF hits = {} THEN None ELSE CHOOSE j \in hits : \A k \in hits : j <= k

\* self.err.downcast_ref::<T>() on the WithBacktrace at node i
downcast_ref(e, i, T) == IF TypeOf(e, i + 1) = T THEN i + 1 ELSE None

is(e, i, T) == TypeOf(e, i + 1) = T

\* variant: the conversion also counts the wrapped value itself as a hit
From_TopCounts(e, cap) ==
    IF e[1].kind = "wb" \/ find_bt(e, 1) # None
    THEN [val |-> <<WithBacktrace(None)>> \o e, cap |-> cap]
    ELSE [val |-> <<WithBacktrace(cap + 1)>> \o e, cap |-> cap + 1]

\* impl From<Error> for WithBacktrace; cap is the number of snapshots taken
From(e, cap) ==
    IF find_bt(e, 1) # None
    THEN [val |-> <<WithBacktrace(None)>> \o e, cap |-> cap]
    ELSE [val |-> <<WithBacktrace(cap + 1)>> \o e, cap |-> cap + 1]

\* ---- ErrorExt -------------------------------------------------------------
ErrorExt_context(self, msg) == Context_new(msg, self)

ErrorExt_with_backtrace(self, cap) == From(self, cap)

\* ---- ResultExt ------------------------------------------------------------
\* variant: the message closure is evaluated before the match on self
ResultExt_with_context_Eager(self, msg, ev) ==
    IF self.tag = "Ok"
    THEN [val |-> self, ev |-> ev + 1]
    ELSE [val |-> Err(ErrorExt_context(self.e, msg)), ev |-> ev + 1]

\* with_context: self.map_err(|e| e.context(f())); f() yields msg and is
\* counted in ev each time it is evaluated
ResultExt_with_context(self, msg, ev) ==
    IF self.tag = "Ok"
    THEN [val |-> self, ev |-> ev]
    ELSE [val |-> Err(ErrorExt_context(self.e, msg)), ev |-> ev + 1]

\* context: self.with_context(|| msg)
ResultExt_context(self, msg, ev) == ResultExt_with_context(self, msg, ev)

\* with_backtrace: self.map_err(ErrorExt::with_backtrace)
ResultExt_with_backtrace(self, cap) ==
    IF self.tag = "Ok"
    THEN [val |-> self, cap |-> cap]
    ELSE LET w == ErrorExt_with_backtrace(self.e, cap) IN
         [val |-> Err(w.val), cap |-> w.cap]

\* ---- state machine --------------------------------------------------------
Call(op, msg) == [op |-> op, msg |-> msg]

Wraps == Len(ehist) + Len(rhist)

Init ==
    /\ err \in {<<Leaf(ty)>> : ty \in LeafTypes}
    /\ res \in {Ok(v) : v \in OkVals} \cup {Err(<<Leaf(ty)>>) : ty \in LeafTypes}
    /\ captured = 0
    /\ evals = 0
    /\ ehist = <<>>
    /\ rhist = <<>>

ErrContext(m) ==
    /\ Wraps < MaxWraps
    /\ err' = ErrorExt_context(err, m)
    /\ ehist' = Append(ehist, Call("context", m))
    /\ UNCHANGED <<res, captured, evals, rhist>>

ErrWithBacktrace ==
    /\ Wraps < MaxWraps
    /\ LET w == ErrorExt_with_backtrace(err, captured) IN
         /\ err' = w.val
         /\ captured' = w.cap
    /\ ehist' = Append(ehist, Call("with_backtrace", ""))
    /\ UNCHANGED <<res, evals, rhist>>

ResContext(m) ==
    /\ Wraps < MaxWraps
    /\ LET r == ResultExt_context(res, m, evals) IN
         /\ res' = r.val
         /\ evals' = r.ev
    /\ rhist' = Append(rhist, Call("context", m))
    /\ UNCHANGED <<err, captured, ehist>>

ResWithContext(m) ==
    /\ Wraps < MaxWraps
    /\ LET r == ResultExt_with_context(res, m, evals) IN
         /\ res' = r.val
         /\ evals' = r.ev
    /\ rhist' = Append(rhist, Call("with_context", m))
    /\ UNCHANGED <<err, captured, ehist>>

ResWithBacktrace ==
    /\ Wraps < MaxWraps
    /\ LET r == ResultExt_with_backtrace(res, captured) IN
         /\ res' = r.val
         /\ captured' = r.cap
    /\ rhist' = Append(rhist, Call("with_backtrace", ""))
    /\ UNCHANGED <<err, evals, ehist>>

Next ==
    \/ \E m \in Msgs : ErrContext(m)
    \/ ErrWithBacktrace
    \/ \E m \in Msgs : ResContext(m)
    \/ \E m \in Msgs : ResWithContext(m)
    \/ ResWithBacktrace

Spec == Init /\ [][Next]_vars

\* ---- helpers for the properties -----------------------------------------
\* the nodes visited by repeated source() from node i, in order
RECURSIVE Walk(_, _)
Walk(e, i) == IF source(e, i) = None THEN <<i>> ELSE <<i>> \o Walk(e, source(e, i))

Range(s) == {s[k] : k \in 1..Len(s)}

Stored(e) == {i \in 1..Len(e) : e[i].kind = "wb" /\ e[i].bt # None}

WbNodes(e) == {i \in 1..Len(e) : e[i].kind = "wb"}

\* the failure values in the state
Values == {err} \cup (IF res.tag = "Err" THEN {res.e} ELSE {})

Last(h) == h[Len(h)]

IsWb(c) == c.op = "with_backtrace"

\* ---- C1 -------------------------------------------------------------------
\* C1: when a plain error (no WithBacktrace in it: a leaf, or Context layers
\* around a leaf) is wrapped by with_backtrace() twice in a row, the outer
\* node stores no snapshot, its backtrace() is Some and is the inner node's
\* snapshot, and exactly one snapshot was captured by the two calls.
C1_DoubleWrapDedup ==
    LET n == Len(ehist) IN
    ( /\ rhist = <<>>
      /\ n >= 2
      /\ IsWb(ehist[n]) /\ IsWb(ehist[n - 1])
      /\ \A k \in 1..(n - 2) : ~IsWb(ehist[k]) )
    => /\ err[1].bt = None
       /\ backtrace(err, 1) # None
       /\ backtrace(err, 1) = err[2].bt
       /\ captured = 1

\* ---- C2 -------------------------------------------------------------------
\* C2: in every value built from a leaf by context() and with_backtrace()
\* wraps, a WithBacktrace node stores None whenever the value it wrapped
\* has a WithBacktrace anywhere in it, its top included; so at most one
\* WithBacktrace node stores a snapshot, and exactly one does once
\* with_backtrace() has been applied.
C2_AtMostOneSnapshot ==
    \A e \in Values :
        /\ \A i \in WbNodes(e) :
               (\E j \in (i + 1)..Len(e) : e[j].kind = "wb") => e[i].bt = None
        /\ Cardinality(Stored(e)) <= 1
        /\ WbNodes(e) # {} => Cardinality(Stored(e)) = 1

\* ---- C3 -------------------------------------------------------------------
LeafType(e) == <<e[Len(e)].ty>>

C4_ContextDisplayAndCause ==
    [][\A m \in Msgs :
          ehist' = Append(ehist, Call("context", m)) =>
              /\ Display(err', 1) = m
              /\ source(err', 1) # None
              /\ SubSeq(err', source(err', 1), Len(err')) = err
              /\ Display(err', source(err', 1)) = Display(err, 1)]_vars

C4_Witness ==
    /\ Len(ehist) >= 3
    /\ Last(ehist).op = "context"
    /\ err[2].kind = "wb"
    /\ Display(err, 1) = Last(ehist).msg
    /\ Display(err, 2) # Display(err, 1)

\* ---- C5 -------------------------------------------------------------------
\* the WithBacktrace nodes among the causes of node i, nearest first
Nested(e, i) ==
    SelectSeq(Tail(Walk(e, i)), LAMBDA j : e[j].kind = "wb")

\* C5: backtrace() on a WithBacktrace node returns the own snapshot when it
\* is stored; otherwise the backtrace() of the nearest WithBacktrace among
\* the causes of its held error, or None when there is none; a returned
\* snapshot is never one stored in a layer above the node.
C5_BacktraceRetrieval ==
    \A e \in Values : \A i \in WbNodes(e) :
        LET b == backtrace(e, i)
            nested == Nested(e, i + 1) IN
        /\ e[i].bt # None => b = e[i].bt
        /\ (e[i].bt = None /\ nested = <<>>) => b = None
        /\ (e[i].bt = None /\ nested # <<>>) => b = backtrace(e, nested[1])
        /\ b # None => \E j \in i..Len(e) : e[j].kind = "wb" /\ e[j].bt = b

\* wb, ctx, wb, ctx, wb: the top defers to a node that itself defers
C5_Witness ==
    /\ Len(err) = 6
    /\ err[1].kind = "wb" /\ err[1].bt = None
    /\ err[3].kind = "wb" /\ err[3].bt = None
    /\ find_bt(err, 2) = 3
    /\ err[5].bt # None
    /\ backtrace(err, 1) = err[5].bt

\* ---- C6 -------------------------------------------------------------------
\* C6: repeated source() from the outermost node visits the leaf and every
\* WithBacktrace node that stores a snapshot.
C6_NothingSwallowed ==
    \A e \in Values :
        /\ Len(e) \in Range(Walk(e, 1))
        /\ Stored(e) \subseteq Range(Walk(e, 1))

\* ---- C7 -------------------------------------------------------------------
\* C7: after n context() wraps of a leaf, repeated source() from the
\* outermost node visits n + 1 distinct nodes: the n Context layers, the
\* last wrap first, then the leaf, whose source() is None.
C7_ContextChainLength ==
    LET n == Len(ehist)
        w == Walk(err, 1) IN
    (\A k \in 1..n : ehist[k].op = "context") =>
        /\ Len(w) = n + 1
        /\ \A k \in 1..n : /\ err[w[k]].kind = "ctx"
                           /\ err[w[k]].msg = ehist[n + 1 - k].msg
        /\ err[w[n + 1]].kind = "leaf"
        /\ source(err, w[n + 1]) = None
        /\ \A a, b \in 1..Len(w) : a # b => w[a] # w[b]
        /\ Cardinality({k \in 1..Len(w) : err[w[k]].kind = "leaf"}) = 1

C7_Witness ==
    /\ Len(ehist) = 3
    /\ \A k \in 1..3 : ehist[k].op = "context"
    /\ ehist[1].msg # ehist[3].msg
    /\ Len(Walk(err, 1)) = 4

\* ---- C8 -------------------------------------------------------------------
\* C8: ResultExt::context, with_context and with_backtrace leave Ok(v) as it
\* is, evaluating no message closure and capturing no snapshot; on Err(e)
\* they yield Err of what the ErrorExt operation yields on e, with_context
\* evaluating its closure exactly once.
C8_ResultShortCircuit ==
    [][/\ \A m \in Msgs : \A op \in {"context", "with_context"} :
              rhist' = Append(rhist, Call(op, m)) =>
                  /\ captured' = captured
                  /\ IF res.tag = "Ok"
                     THEN res' = res /\ evals' = evals
                     ELSE /\ res' = Err(ErrorExt_context(res.e, m))
                          /\ evals' = evals + 1
       /\ rhist' = Append(rhist, Call("with_backtrace", "")) =>
              /\ evals' = evals
              /\ IF res.tag = "Ok"
                 THEN res' = res /\ captured' = captured
                 ELSE LET w == ErrorExt_with_backtrace(res.e, captured) IN
                      res' = Err(w.val) /\ captured' = w.cap]_vars

C8_Witness ==
    /\ res.tag = "Ok"
    /\ Len(rhist) = 3
    /\ \E k \in 1..3 : rhist[k].op = "with_context"
    /\ \E k \in 1..3 : rhist[k].op = "with_backtrace"
    /\ evals = 0 /\ captured = 0

\* ---- C10 ------------------------------------------------------------------
\* C10: every WithBacktrace node of a value built by wrapping alone has
\* backtrace() Some; a node that stores None has a nested WithBacktrace in
\* its held error's chain, whose backtrace() is Some.
C10_RetrievalTotal ==
    \A e \in Values : \A i \in WbNodes(e) :
        /\ backtrace(e, i) # None
        /\ e[i].bt = None =>
               /\ find_bt(e, i + 1) # None
               /\ backtrace(e, find_bt(e, i + 1)) # None

C10_Witness ==
    /\ Len(err) >= 4
    /\ err[1].kind = "wb" /\ err[1].bt = None
    /\ err[2].kind = "wb" /\ err[2].bt = None
    /\ backtrace(err, 1) # None

====
